---- MODULE Spec2Model ----
(***************************************************************************)
(* swagger-express-validator (src/index.js): the middleware hook returned  *)
(* by init, its request stage, and the response stage that replaces        *)
(* res.write / res.end, captures what the downstream handler emits and     *)
(* validates it when the handler calls end.                                *)
(*                                                                         *)
(* Text is a sequence of one-character strings over {"1","2","x","q"},     *)
(* where "q" stands for the double quote.  A JSON text is a decimal number *)
(* (digits only) or a quoted string (q ... q).  A chunk is a Buffer        *)
(* ("buf") or a primitive string ("str") holding text; "undef" is the      *)
(* absent argument.  The downstream handler is the environment: once the   *)
(* continuation has been called with no argument it may set the status,    *)
(* write chunks and call end, each call going to whichever implementation  *)
(* res.write / res.end currently holds.                                    *)
(***************************************************************************)
EXTENDS Integers, Sequences, FiniteSets, TLC

VARIABLES
  options,      \* line 10: the options of the last init call, defaults filled in
  pathObjects,  \* line 9: the path objects built by the last init call
  pc,           \* per exchange: where validate (lines 218-227) stands
  req,          \* per exchange: method, originalUrl and parsed body
  res,          \* per exchange: statusCode and what res.write / res.end hold
  writtenData,  \* per exchange: the array of line 141
  val,          \* per exchange: `val` of line 139 as decoded and parsed
  nextCalls,    \* per exchange: the calls of the continuation, in order
  wire,         \* per exchange: what reached the transport's write / end
  thrown,       \* per exchange: the errors thrown out of the replaced end
  fnCalls,      \* per exchange: the calls of the two validation callbacks
  hand,         \* per exchange: what the downstream handler has called so far
  inits,        \* the options passed to the init calls so far, in order
  via           \* per exchange: the init call whose returned hook it entered

vars == <<options, pathObjects, pc, req, res, writtenData, val,
          nextCalls, wire, thrown, fnCalls, hand, inits, via>>

\* Most write calls the handler issues before end.
MaxWrites == 1

Exchanges == {"e1", "e2"}

----------------------------------------------------------------------------
\* Text, chunks and JSON values

Buf(t) == [kind |-> "buf", text |-> t]
Str(t) == [kind |-> "str", text |-> t]
Undef == [kind |-> "undef", text |-> <<>>]

Quoted == <<"q", "x", "q">>

\* What the handler passes to res.write.
WriteChunks == {Buf(<<"1">>), Buf(<<"2">>), Buf(<<"x">>), Str(<<"1">>)}

\* What the handler passes to res.end: nothing, a Buffer or a primitive string.
EndData == {Undef, Buf(<<"1">>), Buf(<<"2">>), Str(<<"1">>), Str(<<"2">>),
            Str(<<>>), Buf(<<"x">>), Buf(Quoted), Str(Quoted)}

Num(n) == [t |-> "num", n |-> n, s |-> <<>>]
StrVal(s) == [t |-> "str", n |-> 0, s |-> s]
Undefined == [t |-> "undefined", n |-> 0, s |-> <<>>]
Null == [t |-> "null", n |-> 0, s |-> <<>>]
\* a parsed object with the given properties
Obj(props) == [t |-> "obj", n |-> 0, s |-> <<>>, props |-> props]

IsDigit(c) == c \in {"1", "2"}
DigitVal(c) == IF c = "1" THEN 1 ELSE 2
DigitChars == <<"0", "1", "2", "3", "4", "5", "6", "7", "8", "9">>

RECURSIVE NumOf(_)
NumOf(t) ==
  IF t = <<>> THEN 0
  ELSE NumOf(SubSeq(t, 1, Len(t) - 1)) * 10 + DigitVal(t[Len(t)])

RECURSIVE Digits(_)
Digits(n) ==
  IF n < 10 THEN <<DigitChars[n + 1]>>
  ELSE Digits(n \div 10) \o <<DigitChars[(n % 10) + 1]>>

\* JSON.parse: ok is FALSE where it throws a SyntaxError.
JSONParse(t) ==
  IF t # <<>> /\ \A i \in 1..Len(t) : IsDigit(t[i])
    THEN [ok |-> TRUE, value |-> Num(NumOf(t))]
  ELSE IF Len(t) >= 2 /\ t[1] = "q" /\ t[Len(t)] = "q"
          /\ \A i \in 2..(Len(t) - 1) : t[i] # "q"
    THEN [ok |-> TRUE, value |-> StrVal(SubSeq(t, 2, Len(t) - 1))]
  ELSE [ok |-> FALSE, value |-> Undefined]

\* JSON.stringify of a parsed value; hasData is FALSE for undefined.
JSONStringify(v) ==
  IF v.t = "num" THEN [hasData |-> TRUE, text |-> Digits(v.n)]
  ELSE IF v.t = "str" THEN [hasData |-> TRUE, text |-> <<"q">> \o v.s \o <<"q">>]
  ELSE [hasData |-> FALSE, text |-> <<>>]

RECURSIVE Flatten(_)
Flatten(list) ==
  IF list = <<>> THEN <<>>
  ELSE list[1].text \o Flatten(Tail(list))

----------------------------------------------------------------------------
\* The contract document and the path registry

NumberSchema == [type |-> "number", maximum |-> 11]
StringSchema == [type |-> "string", maximum |-> 0]
\* null / undefined where a schema is expected
NoSchema == [type |-> "none", maximum |-> 0]

ItemDef ==
  [get  |-> [parameters |-> <<>>,
             responses |-> (200 :> [schema |-> NumberSchema])],
   post |-> [parameters |-> <<[schema |-> NumberSchema], [schema |-> StringSchema]>>,
             responses |-> (200 :> [schema |-> StringSchema])]]

\* An object schema with one property flagged x-nullable and one that is not.
PetSchema ==
  [type |-> "object", maximum |-> 0,
   properties |->
     [name |-> [type |-> "string", maximum |-> 0, xnullable |-> TRUE],
      age  |-> [type |-> "number", maximum |-> 11]]]

PetDef ==
  [post |-> [parameters |-> <<[schema |-> PetSchema]>>,
             responses |-> (200 :> [schema |-> PetSchema])]]

OneDef ==
  [get |-> [parameters |-> <<[schema |-> StringSchema]>>,
            responses |-> (200 :> [schema |-> StringSchema])]]

\* options.schema.paths, in key order
ContractPaths ==
  << [path |-> <<"/", "items", "/", "{id}">>, pathDef |-> ItemDef],
     [path |-> <<"/", "items", "/", "1">>, pathDef |-> OneDef],
     [path |-> <<"/", "pets">>, pathDef |-> PetDef] >>

Methods == {"GET", "POST", "PUT"}
Urls == {<<"/", "items", "/", "1", "?", "q">>, <<"/", "other">>}
Bodies == {Num(1), Num(12)}
StatusCodes == {200, 404}

\* path.replace(/\{/g, ':').replace(/\}/g, '')
ReplaceBraces(path) ==
  [i \in 1..Len(path) |-> IF path[i] = "{id}" THEN ":id" ELSE path[i]]

buildPathObjects(paths) ==
  [i \in 1..Len(paths) |->
     [definition |-> paths[i].pathDef,
      regexp     |-> ReplaceBraces(paths[i].path),
      path       |-> paths[i].path]]

\* require('url').parse(reqUrl).pathname: the URL up to its query or fragment
Pathname(reqUrl) ==
  LET cut == {i \in 1..Len(reqUrl) : reqUrl[i] \in {"?", "#"}}
      stop == IF cut = {} THEN Len(reqUrl) + 1
              ELSE CHOOSE i \in cut : \A j \in cut : i <= j
  IN SubSeq(reqUrl, 1, stop - 1)

\* url.match(regexp) for the regexp path-to-regexp builds: every literal token
\* equal, a named parameter matching one non-empty segment, an optional
\* trailing slash.
RegexpMatch(url, regexp) ==
  LET n == Len(url)
      u == IF n > 1 /\ url[n] = "/" THEN SubSeq(url, 1, n - 1) ELSE url
  IN /\ Len(u) = Len(regexp)
     /\ \A i \in 1..Len(regexp) :
          IF regexp[i] = ":id" THEN u[i] # "/" ELSE u[i] = regexp[i]

RECURSIVE Filter(_, _)
Filter(objs, url) ==
  IF objs = <<>> THEN <<>>
  ELSE IF RegexpMatch(url, objs[1].regexp)
    THEN <<objs[1]>> \o Filter(Tail(objs), url)
  ELSE Filter(Tail(objs), url)

\* matchUrlWithSchema taking the last matching path object, not the first.
matchUrlWithSchema_LastMatch(reqUrl) ==
  LET url == Pathname(reqUrl)
      pathObj == Filter(pathObjects, url)
  IN IF pathObj # <<>>
       THEN [found |-> TRUE, definition |-> pathObj[Len(pathObj)].definition]
     ELSE [found |-> FALSE, definition |-> <<>>]

\* found is FALSE where the code returns null
matchUrlWithSchema(reqUrl) ==
  LET url == Pathname(reqUrl)
      pathObj == Filter(pathObjects, url)
  IN IF pathObj # <<>>
       THEN [found |-> TRUE, definition |-> pathObj[1].definition]
     ELSE [found |-> FALSE, definition |-> <<>>]

toLowerCase(method) ==
  CASE method = "GET" -> "get"
    [] method = "POST" -> "post"
    [] method = "PUT" -> "put"
    [] method = "Post" -> "post"
    [] OTHER -> method

\* schema.properties[prop]['x-nullable']: undefined where the key is absent
XNullable(prop) == "xnullable" \in DOMAIN prop /\ prop.xnullable

\* decorateWithNullable that looks through a wrapper for the flag, wrapping an
\* already wrapped property again.
decorateWithNullable_Rewrap(schema) ==
  IF schema.type # "none" /\ "properties" \in DOMAIN schema
    THEN [schema EXCEPT !.properties =
            [p \in DOMAIN schema.properties |->
               IF \/ XNullable(schema.properties[p])
                  \/ /\ "oneOf" \in DOMAIN schema.properties[p]
                     /\ XNullable(schema.properties[p].oneOf[1])
                 THEN [oneOf |-> <<schema.properties[p], [type |-> "null"]>>]
               ELSE schema.properties[p]]]
  ELSE schema

\* The schema as decorateWithNullable leaves and returns it.  A schema without
\* `properties` stays as it is (line 31).
decorateWithNullable(schema) ==
  IF schema.type # "none" /\ "properties" \in DOMAIN schema
    THEN [schema EXCEPT !.properties =
            [p \in DOMAIN schema.properties |->
               IF XNullable(schema.properties[p])
                 THEN [oneOf |-> <<schema.properties[p], [type |-> "null"]>>]
               ELSE schema.properties[p]]]
  ELSE schema

\* resolveResponseModelSchema with the status code taken as 200 whatever the
\* response holds.
resolveResponseModelSchema_Always200(rq, rs) ==
  LET pathObj == matchUrlWithSchema(rq.originalUrl)
      method == toLowerCase(rq.method)
      code == 200
  IN IF pathObj.found /\ method \notin DOMAIN pathObj.definition
       THEN [threw |-> TRUE, schema |-> NoSchema]
     ELSE LET schema ==
                IF pathObj.found /\ code \in DOMAIN pathObj.definition[method].responses
                  THEN pathObj.definition[method].responses[code].schema
                ELSE NoSchema
          IN [threw |-> FALSE,
              schema |-> IF options.allowNullable THEN decorateWithNullable(schema)
                         ELSE schema]

\* threw: the TypeError of reading `.responses` of undefined (line 51)
resolveResponseModelSchema(rq, rs) ==
  LET pathObj == matchUrlWithSchema(rq.originalUrl)
      method == toLowerCase(rq.method)
      code == IF rs.statusCode = 0 THEN 200 ELSE rs.statusCode
  IN IF pathObj.found /\ method \notin DOMAIN pathObj.definition
       THEN [threw |-> TRUE, schema |-> NoSchema]
     ELSE LET schema ==
                IF pathObj.found /\ code \in DOMAIN pathObj.definition[method].responses
                  THEN pathObj.definition[method].responses[code].schema
                ELSE NoSchema
          IN [threw |-> FALSE,
              schema |-> IF options.allowNullable THEN decorateWithNullable(schema)
                         ELSE schema]

\* resolveRequestModelSchema taking the last declared parameter, not the first.
resolveRequestModelSchema_LastParameter(rq) ==
  LET pathObj == matchUrlWithSchema(rq.originalUrl)
      method == toLowerCase(rq.method)
      requestSchemas ==
        IF pathObj.found /\ method \in DOMAIN pathObj.definition
          THEN pathObj.definition[method].parameters
        ELSE <<>>
      schema == IF Len(requestSchemas) > 0
                  THEN requestSchemas[Len(requestSchemas)].schema ELSE NoSchema
  IN IF options.allowNullable THEN decorateWithNullable(schema) ELSE schema

resolveRequestModelSchema(rq) ==
  LET pathObj == matchUrlWithSchema(rq.originalUrl)
      method == toLowerCase(rq.method)
      requestSchemas ==
        IF pathObj.found /\ method \in DOMAIN pathObj.definition
          THEN pathObj.definition[method].parameters
        ELSE <<>>
      schema == IF Len(requestSchemas) > 0 THEN requestSchemas[1].schema ELSE NoSchema
  IN IF options.allowNullable THEN decorateWithNullable(schema) ELSE schema

\* The order in which a failing property is reported.
PropertyOrder == <<"age", "name">>

\* The index in pathObjects of the object matchUrlWithSchema returns, 0 for null.
FirstMatchIndex(reqUrl) ==
  LET hits == {i \in 1..Len(pathObjects) :
                 RegexpMatch(Pathname(reqUrl), pathObjects[i].regexp)}
  IN IF hits = {} THEN 0 ELSE CHOOSE i \in hits : \A j \in hits : i <= j

\* resolveRequestModelSchema with the test of options.allowNullable left out.
requestResolveInPlace_Unconditional(rq) ==
  LET i == FirstMatchIndex(rq.originalUrl)
      method == toLowerCase(rq.method)
  IN IF /\ i # 0
        /\ method \in DOMAIN pathObjects[i].definition
        /\ Len(pathObjects[i].definition[method].parameters) > 0
       THEN [pathObjects EXCEPT
               ![i].definition[method].parameters[1].schema = decorateWithNullable(@)]
     ELSE pathObjects

\* pathObjects after resolveRequestModelSchema(rq): decorateWithNullable
\* rewrites the resolved schema object of the contract in place (lines 34-39).
requestResolveInPlace(rq) ==
  LET i == FirstMatchIndex(rq.originalUrl)
      method == toLowerCase(rq.method)
  IN IF /\ options.allowNullable
        /\ i # 0
        /\ method \in DOMAIN pathObjects[i].definition
        /\ Len(pathObjects[i].definition[method].parameters) > 0
       THEN [pathObjects EXCEPT
               ![i].definition[method].parameters[1].schema = decorateWithNullable(@)]
     ELSE pathObjects

\* pathObjects after a resolveResponseModelSchema(rq, rs) that does not throw.
responseResolveInPlace(rq, rs) ==
  LET i == FirstMatchIndex(rq.originalUrl)
      method == toLowerCase(rq.method)
      code == IF rs.statusCode = 0 THEN 200 ELSE rs.statusCode
  IN IF /\ options.allowNullable
        /\ i # 0
        /\ method \in DOMAIN pathObjects[i].definition
        /\ code \in DOMAIN pathObjects[i].definition[method].responses
       THEN [pathObjects EXCEPT
               ![i].definition[method].responses[code].schema = decorateWithNullable(@)]
     ELSE pathObjects

\* ajv.compile(schema)(value) with allErrors: the failed keywords (for an
\* object, the properties that fail), <<>> when valid
RECURSIVE ValidationErrors(_, _)
ValidationErrors(schema, v) ==
  IF "oneOf" \in DOMAIN schema
    THEN IF Cardinality({i \in 1..Len(schema.oneOf) :
                           ValidationErrors(schema.oneOf[i], v) = <<>>}) = 1
           THEN <<>>
         ELSE <<"oneOf">>
  ELSE IF schema.type = "number"
    THEN IF v.t # "num" THEN <<"type">>
         ELSE IF v.n > schema.maximum THEN <<"maximum">>
         ELSE <<>>
  ELSE IF schema.type = "string"
    THEN IF v.t # "str" THEN <<"type">> ELSE <<>>
  ELSE IF schema.type = "null"
    THEN IF v.t # "null" THEN <<"type">> ELSE <<>>
  ELSE IF schema.type = "object"
    THEN IF v.t # "obj" THEN <<"type">>
         ELSE LET fails(p) ==
                    /\ p \in DOMAIN schema.properties
                    /\ p \in DOMAIN v.props
                    /\ ValidationErrors(schema.properties[p], v.props[p]) # <<>>
              IN SelectSeq(PropertyOrder, fails)
  ELSE <<>>

\* `Response schema validation failed for ${req.method}${req.originalUrl}`
FailureMessage(rq) ==
  [text |-> "Response schema validation failed for ",
   method |-> rq.method, url |-> rq.originalUrl]

NoArg == [text |-> "", method |-> "", url |-> <<>>]

----------------------------------------------------------------------------
\* The request stage

ProceedCall(by) == [by |-> by, arg |-> NoArg]
ErrorCall(by, rq) == [by |-> by, arg |-> FailureMessage(rq)]
FnCall(fn, rq, v, errors) == [fn |-> fn, rq |-> rq, value |-> v, errors |-> errors]
WireEntry(op, hasData, text, status, message) ==
  [op |-> op, hasData |-> hasData, text |-> text, status |-> status, message |-> message]

\* validateRequest with res.status(400) left out of the rejection.
validateRequest_NoStatus(rq) ==
  LET requestSchema == resolveRequestModelSchema(rq)
      errors == ValidationErrors(requestSchema, rq.body)
      none == [fn |-> <<>>, next |-> <<>>, status |-> 0, json |-> <<>>]
  IN IF requestSchema = NoSchema
       THEN [none EXCEPT !.next = <<ProceedCall("request")>>]
     ELSE IF errors # <<>>
       THEN IF options.requestValidationFn
              THEN [none EXCEPT
                      !.fn = <<FnCall("requestValidationFn", rq, rq.body, errors)>>,
                      !.next = <<ProceedCall("request")>>]
            ELSE [none EXCEPT !.json = <<FailureMessage(rq)>>]
     ELSE [none EXCEPT !.next = <<ProceedCall("request")>>]

\* validateRequest with the test of line 101 inverted.
validateRequest_Inverted(rq) ==
  LET requestSchema == resolveRequestModelSchema(rq)
      errors == ValidationErrors(requestSchema, rq.body)
      none == [fn |-> <<>>, next |-> <<>>, status |-> 0, json |-> <<>>]
  IN IF requestSchema = NoSchema
       THEN [none EXCEPT !.next = <<ProceedCall("request")>>]
     ELSE IF errors = <<>>
       THEN IF options.requestValidationFn
              THEN [none EXCEPT
                      !.fn = <<FnCall("requestValidationFn", rq, rq.body, errors)>>,
                      !.next = <<ProceedCall("request")>>]
            ELSE [none EXCEPT !.status = 400, !.json = <<FailureMessage(rq)>>]
     ELSE [none EXCEPT !.next = <<ProceedCall("request")>>]

\* validateRequest(req, res, next): what it calls, in order of the code.
\*   fn      the requestValidationFn calls,  next  the continuation calls,
\*   status  the code passed to res.status (0: not called),
\*   json    the bodies passed to res.json
validateRequest(rq) ==
  LET requestSchema == resolveRequestModelSchema(rq)
      errors == ValidationErrors(requestSchema, rq.body)
      none == [fn |-> <<>>, next |-> <<>>, status |-> 0, json |-> <<>>]
  IN IF requestSchema = NoSchema
       THEN [none EXCEPT !.next = <<ProceedCall("request")>>]
     ELSE IF errors # <<>>
       THEN IF options.requestValidationFn
              THEN [none EXCEPT
                      !.fn = <<FnCall("requestValidationFn", rq, rq.body, errors)>>,
                      !.next = <<ProceedCall("request")>>]
            ELSE [none EXCEPT !.status = 400, !.json = <<FailureMessage(rq)>>]
     ELSE [none EXCEPT !.next = <<ProceedCall("request")>>]

----------------------------------------------------------------------------
\* The response stage: the replaced res.end

Truthy(data) == data.kind = "buf" \/ (data.kind = "str" /\ data.text # <<>>)

\* Buffer.concat(list): a TypeError unless every element is a Buffer
BufferConcat(list) ==
  [threw |-> \E i \in 1..Len(list) : list[i].kind # "buf",
   text |-> Flatten(list)]

\* Lines 153-165: the value of `val` and of writtenData after them.  A
\* primitive string is no instance of String: it takes the branch of line 161.
Assemble(wd, data) ==
  IF Truthy(data)
    THEN IF data.kind = "buf"
           THEN LET c == BufferConcat(Append(wd, data))
                IN [threw |-> c.threw, wd |-> Append(wd, data),
                    tag |-> "buffer", text |-> c.text]
         ELSE [threw |-> FALSE, wd |-> wd, tag |-> "string", text |-> data.text]
  ELSE IF Len(wd) # 0
    THEN LET c == BufferConcat(wd)
         IN [threw |-> c.threw, wd |-> wd, tag |-> "buffer", text |-> c.text]
  ELSE [threw |-> FALSE, wd |-> wd, tag |-> "undefined", text |-> <<>>]

\* sendData(res, data, encoding): the argument res.end receives
sendData(v) ==
  IF v.t = "str"
    THEN WireEntry("end", TRUE, v.s, 0, NoArg)
  ELSE LET j == JSONStringify(v)
       IN WireEntry("end", j.hasData, j.text, 0, NoArg)

TypeError(at) == [name |-> "TypeError", failedValidation |-> FALSE, at |-> at]
DecodeError == [name |-> "SyntaxError", failedValidation |-> TRUE, at |-> "parse"]

NoVal == [decoded |-> FALSE, text |-> <<>>, parsed |-> FALSE, value |-> Undefined]

\* The function installed as res.end (lines 152-212), called with `data` while
\* writtenData is wd: what it leaves and what it calls.
endHook(rq, rs, wd, data) ==
  LET a == Assemble(wd, data)
      p == JSONParse(a.text)
      isText == a.tag # "undefined"
      value == IF isText THEN p.value ELSE Undefined
      r == resolveResponseModelSchema(rq, rs)
      errors == ValidationErrors(r.schema, value)
      base == [wd |-> a.wd, restored |-> FALSE, val |-> NoVal, thrown |-> <<>>,
               fn |-> <<>>, next |-> <<>>, sent |-> <<>>, po |-> pathObjects]
      decoded == [base EXCEPT !.restored = TRUE,
                    !.val = [decoded |-> isText, text |-> a.text,
                             parsed |-> FALSE, value |-> Undefined]]
      unresolved == [decoded EXCEPT !.val.parsed = isText, !.val.value = value]
      parsed == [unresolved EXCEPT !.po = responseResolveInPlace(rq, rs)]
  IN IF a.threw
       THEN [base EXCEPT !.thrown = <<TypeError("concat")>>]
     ELSE IF isText /\ ~p.ok
       THEN [decoded EXCEPT !.thrown = <<DecodeError>>]
     ELSE IF r.threw
       THEN [unresolved EXCEPT !.thrown = <<TypeError("resolve")>>]
     ELSE IF r.schema = NoSchema
       THEN [parsed EXCEPT !.sent = <<sendData(value)>>]
     ELSE IF errors # <<>>
       THEN IF options.responseValidationFn
              THEN [parsed EXCEPT
                      !.fn = <<FnCall("responseValidationFn", rq, value, errors)>>,
                      !.sent = <<sendData(value)>>]
            ELSE [parsed EXCEPT !.next = <<ErrorCall("end", rq)>>]
     ELSE [parsed EXCEPT !.sent = <<sendData(value)>>]

----------------------------------------------------------------------------
\* State

NoReq == [method |-> "", originalUrl |-> <<>>, body |-> Undefined]
NewRes == [statusCode |-> 200, write |-> "orig", end |-> "orig"]
NoHand == [writes |-> 0, statusSet |-> FALSE, ended |-> FALSE, viaHook |-> FALSE,
           data |-> Undef, captured |-> <<>>, issued |-> <<>>]

Options ==
  [validateRequest : BOOLEAN, validateResponse : BOOLEAN, allowNullable : BOOLEAN,
   requestValidationFn : BOOLEAN, responseValidationFn : BOOLEAN]

\* After init(opts): the options with their defaults filled in and the path
\* objects built; no exchange has entered the hook.
Init ==
  /\ options \in Options
  /\ pathObjects = buildPathObjects(ContractPaths)
  /\ pc = [e \in Exchanges |-> "idle"]
  /\ req = [e \in Exchanges |-> NoReq]
  /\ res = [e \in Exchanges |-> NewRes]
  /\ writtenData = [e \in Exchanges |-> <<>>]
  /\ val = [e \in Exchanges |-> NoVal]
  /\ nextCalls = [e \in Exchanges |-> <<>>]
  /\ wire = [e \in Exchanges |-> <<>>]
  /\ thrown = [e \in Exchanges |-> <<>>]
  /\ fnCalls = [e \in Exchanges |-> <<>>]
  /\ hand = [e \in Exchanges |-> NoHand]
  /\ inits = <<options>>
  /\ via = [e \in Exchanges |-> 0]

\* validate(req, res, next), lines 219-223: the request stage when enabled.
\* res.json ends the response through res.end, the original at this point.
ValidateRequestPart(e, m, u, b) ==
  LET rq == [method |-> m, originalUrl |-> u, body |-> b]
      o == validateRequest(rq)
      code == IF o.status # 0 THEN o.status ELSE res[e].statusCode
  IN /\ pc[e] = "idle"
     /\ \E k \in 1..Len(inits) : via' = [via EXCEPT ![e] = k]
     /\ req' = [req EXCEPT ![e] = rq]
     /\ pc' = [pc EXCEPT ![e] = "mid"]
     /\ IF options.validateRequest
          THEN /\ fnCalls' = [fnCalls EXCEPT ![e] = @ \o o.fn]
               /\ nextCalls' = [nextCalls EXCEPT ![e] = @ \o o.next]
               /\ res' = [res EXCEPT ![e].statusCode = code]
               /\ wire' = [wire EXCEPT ![e] = @ \o
                            [i \in 1..Len(o.json) |->
                               WireEntry("json", TRUE, <<>>, code, o.json[i])]]
               /\ pathObjects' = requestResolveInPlace(rq)
        ELSE UNCHANGED <<fnCalls, nextCalls, res, wire, pathObjects>>
     /\ UNCHANGED <<inits, options, writtenData, val, thrown, hand>>

\* validate, lines 224-226: validateResponse installs the two replacements over
\* a fresh writtenData and calls next().
ValidateResponsePart(e) ==
  /\ pc[e] = "mid"
  /\ pc' = [pc EXCEPT ![e] = "returned"]
  /\ IF options.validateResponse
       THEN /\ res' = [res EXCEPT ![e].write = "hook", ![e].end = "hook"]
            /\ writtenData' = [writtenData EXCEPT ![e] = <<>>]
            /\ nextCalls' = [nextCalls EXCEPT ![e] = Append(@, ProceedCall("response"))]
     ELSE UNCHANGED <<res, writtenData, nextCalls>>
  /\ UNCHANGED <<inits, via, options, pathObjects, req, val, wire, thrown, fnCalls, hand>>

\* The downstream handler runs once the continuation was called with no argument.
HandlerEntered(e) == \E i \in 1..Len(nextCalls[e]) : nextCalls[e][i].arg = NoArg

\* The handler sets the status code, before it emits anything.
HandlerStatus(e, code) ==
  /\ HandlerEntered(e)
  /\ ~hand[e].ended /\ hand[e].writes = 0 /\ ~hand[e].statusSet
  /\ code # res[e].statusCode
  /\ res' = [res EXCEPT ![e].statusCode = code]
  /\ hand' = [hand EXCEPT ![e].statusSet = TRUE]
  /\ UNCHANGED <<inits, via, options, pathObjects, pc, req, writtenData, val, nextCalls, wire,
                 thrown, fnCalls>>

\* HandlerWrite with a replacement that also forwards the chunk to the
\* transport's write.
HandlerWrite_Forward(e, chunk) ==
  /\ HandlerEntered(e)
  /\ ~hand[e].ended /\ hand[e].writes < MaxWrites
  /\ hand' = [hand EXCEPT ![e].writes = @ + 1, ![e].issued = Append(@, chunk)]
  /\ wire' = [wire EXCEPT ![e] =
                Append(@, WireEntry("write", TRUE, chunk.text, res[e].statusCode, NoArg))]
  /\ IF res[e].write = "hook"
       THEN writtenData' = [writtenData EXCEPT ![e] = Append(@, chunk)]
     ELSE UNCHANGED writtenData
  /\ UNCHANGED <<inits, via, options, pathObjects, pc, req, res, val, nextCalls, thrown, fnCalls>>

\* HandlerWrite with one writtenData array for the whole module instead of one
\* per validateResponse call.
HandlerWrite_Shared(e, chunk) ==
  /\ HandlerEntered(e)
  /\ ~hand[e].ended /\ hand[e].writes < MaxWrites
  /\ hand' = [hand EXCEPT ![e].writes = @ + 1, ![e].issued = Append(@, chunk)]
  /\ IF res[e].write = "hook"
       THEN /\ writtenData' = [x \in Exchanges |-> Append(writtenData[x], chunk)]
            /\ UNCHANGED wire
     ELSE /\ wire' = [wire EXCEPT ![e] =
                        Append(@, WireEntry("write", TRUE, chunk.text, res[e].statusCode, NoArg))]
          /\ UNCHANGED writtenData
  /\ UNCHANGED <<inits, via, options, pathObjects, pc, req, res, val, nextCalls, thrown, fnCalls>>

\* The handler calls res.write(chunk): the replacement of lines 145-149 when
\* installed, the transport's write otherwise.
HandlerWrite(e, chunk) ==
  /\ HandlerEntered(e)
  /\ ~hand[e].ended /\ hand[e].writes < MaxWrites
  /\ hand' = [hand EXCEPT ![e].writes = @ + 1, ![e].issued = Append(@, chunk)]
  /\ IF res[e].write = "hook"
       THEN /\ writtenData' = [writtenData EXCEPT ![e] = Append(@, chunk)]
            /\ UNCHANGED wire
     ELSE /\ wire' = [wire EXCEPT ![e] =
                        Append(@, WireEntry("write", TRUE, chunk.text, res[e].statusCode, NoArg))]
          /\ UNCHANGED writtenData
  /\ UNCHANGED <<inits, via, options, pathObjects, pc, req, res, val, nextCalls, thrown, fnCalls>>

\* The handler calls res.end(data): the replacement of lines 152-212 when
\* installed, the transport's end otherwise.
HandlerEnd(e, data) ==
  /\ HandlerEntered(e)
  /\ ~hand[e].ended
  /\ hand' = [hand EXCEPT ![e].ended = TRUE, ![e].viaHook = (res[e].end = "hook"),
                          ![e].data = data, ![e].captured = writtenData[e]]
  /\ IF res[e].end = "hook"
       THEN LET o == endHook(req[e], res[e], writtenData[e], data)
            IN /\ writtenData' = [writtenData EXCEPT ![e] = o.wd]
               /\ res' = [res EXCEPT
                            ![e].write = IF o.restored THEN "orig" ELSE @,
                            ![e].end = IF o.restored THEN "orig" ELSE @]
               /\ val' = [val EXCEPT ![e] = o.val]
               /\ pathObjects' = o.po
               /\ thrown' = [thrown EXCEPT ![e] = @ \o o.thrown]
               /\ fnCalls' = [fnCalls EXCEPT ![e] = @ \o o.fn]
               /\ nextCalls' = [nextCalls EXCEPT ![e] = @ \o o.next]
               /\ wire' = [wire EXCEPT ![e] = @ \o
                            [i \in 1..Len(o.sent) |->
                               [o.sent[i] EXCEPT !.status = res[e].statusCode]]]
     ELSE /\ wire' = [wire EXCEPT ![e] =
                        Append(@, WireEntry("end", data.kind # "undef", data.text,
                                            res[e].statusCode, NoArg))]
          /\ UNCHANGED <<writtenData, res, val, thrown, fnCalls, nextCalls, pathObjects>>
  /\ UNCHANGED <<inits, via, options, pc, req>>

\* One exchange goes through the hook.
Next ==
  \E e \in {"e1"} :
    \/ \E m \in Methods, u \in Urls, b \in Bodies : ValidateRequestPart(e, m, u, b)
    \/ ValidateResponsePart(e)
    \/ \E code \in StatusCodes : HandlerStatus(e, code)
    \/ \E chunk \in WriteChunks : HandlerWrite(e, chunk)
    \/ \E data \in EndData : HandlerEnd(e, data)

Spec == Init /\ [][Next]_vars

----------------------------------------------------------------------------
\* Properties of the request stage

RequestStageRan(e) == pc[e] # "idle" /\ options.validateRequest
RequestSchemaOf(e) == resolveRequestModelSchema(req[e])
RequestViolates(e) ==
  /\ RequestSchemaOf(e) # NoSchema
  /\ ValidationErrors(RequestSchemaOf(e), req[e].body) # <<>>
RequestSatisfies(e) ==
  /\ RequestSchemaOf(e) # NoSchema
  /\ ValidationErrors(RequestSchemaOf(e), req[e].body) = <<>>

Rejected400(e) ==
  \E i \in 1..Len(wire[e]) :
    /\ wire[e][i].op = "json"
    /\ wire[e][i].status = 400
    /\ wire[e][i].message.method = req[e].method
    /\ wire[e][i].message.url = req[e].originalUrl

\* C1: with validateRequest enabled and no requestValidationFn, a request whose
\* body violates the resolved request schema never has the continuation invoked.
C1_RejectedNeverContinues ==
  \A e \in Exchanges :
    (RequestStageRan(e) /\ ~options.requestValidationFn /\ RequestViolates(e))
      => nextCalls[e] = <<>>

\* C2: a request whose body violates the resolved request schema, with no
\* requestValidationFn, is answered with status 400 and a JSON body whose
\* message names the request's method and URL.
C2_ViolationYields400 ==
  \A e \in Exchanges :
    (RequestStageRan(e) /\ ~options.requestValidationFn /\ RequestViolates(e))
      => Rejected400(e)

C2_Witness ==
  \E e \in Exchanges :
    /\ RequestStageRan(e) /\ ~options.requestValidationFn /\ RequestViolates(e)
    /\ Rejected400(e)
    /\ pc[e] = "returned"

\* C3: a request whose body satisfies the resolved request schema has the
\* continuation invoked by the request stage with no error argument, and the
\* request stage produces no 400 response.
C3_ValidRequestContinues ==
  \A e \in Exchanges :
    (RequestStageRan(e) /\ RequestSatisfies(e))
      => /\ \E i \in 1..Len(nextCalls[e]) : nextCalls[e][i] = ProceedCall("request")
         /\ \A i \in 1..Len(nextCalls[e]) :
              nextCalls[e][i].by = "request" => nextCalls[e][i].arg = NoArg
         /\ \A i \in 1..Len(wire[e]) : wire[e][i].op # "json"
         /\ res[e].statusCode # 400

C3_Witness ==
  \E e \in Exchanges :
    /\ RequestStageRan(e) /\ RequestSatisfies(e)
    /\ nextCalls[e] # <<>> /\ nextCalls[e][1] = ProceedCall("request")

----------------------------------------------------------------------------
\* Properties of the response stage

\* The handler's end call went to the replaced res.end.
EndIntercepted(e) == hand[e].ended /\ hand[e].viaHook

\* What the handler meant to send: the chunks it wrote, then the data of end.
Intended(e) == Flatten(hand[e].captured) \o hand[e].data.text
IntendedJSON(e) == JSONParse(Intended(e))

ResponseSchemaOf(e) == resolveResponseModelSchema(req[e], res[e])
SchemaApplies(e) == ~ResponseSchemaOf(e).threw /\ ResponseSchemaOf(e).schema # NoSchema
IntendedErrors(e) == ValidationErrors(ResponseSchemaOf(e).schema, IntendedJSON(e).value)

ErrorPropagated(e) ==
  \E i \in 1..Len(nextCalls[e]) : nextCalls[e][i].arg # NoArg
ValidationErrorPropagated(e) ==
  \E i \in 1..Len(nextCalls[e]) : nextCalls[e][i] = ErrorCall("end", req[e])
OriginalEndInvoked(e) ==
  \E i \in 1..Len(wire[e]) : wire[e][i].op = "end"
\* The original end received a text that is JSON for the value v.
DeliveredJSON(e, v) ==
  \E i \in 1..Len(wire[e]) :
    /\ wire[e][i].op = "end" /\ wire[e][i].hasData
    /\ JSONParse(wire[e][i].text).ok
    /\ JSONParse(wire[e][i].text).value = v
ResponseFnCalls(e) ==
  {i \in 1..Len(fnCalls[e]) : fnCalls[e][i].fn = "responseValidationFn"}
RequestFnCalls(e) ==
  {i \in 1..Len(fnCalls[e]) : fnCalls[e][i].fn = "requestValidationFn"}

\* C4: when the writes and the end data together are valid JSON satisfying the
\* resolved response schema, exactly that JSON value reaches the original end
\* and no error is raised or propagated.
C4_ValidPayloadDelivered ==
  \A e \in Exchanges :
    (/\ EndIntercepted(e)
     /\ IntendedJSON(e).ok
     /\ SchemaApplies(e)
     /\ IntendedErrors(e) = <<>>)
      => /\ DeliveredJSON(e, IntendedJSON(e).value)
         /\ thrown[e] = <<>>
         /\ ~ErrorPropagated(e)

\* C5: when the captured body is valid JSON violating the resolved response
\* schema and no responseValidationFn is configured, the continuation gets the
\* error naming method and URL and the stage never invokes the original end.
C5_InvalidPayloadPropagated ==
  \A e \in Exchanges :
    (/\ EndIntercepted(e)
     /\ IntendedJSON(e).ok
     /\ SchemaApplies(e)
     /\ IntendedErrors(e) # <<>>
     /\ ~options.responseValidationFn)
      => /\ ValidationErrorPropagated(e)
         /\ ~OriginalEndInvoked(e)

\* C6: a captured body that is not valid JSON, where a schema applies to the
\* status code, ends the exchange with the thrown decode error marked
\* failedValidation and with nothing of the schema-validation outcome.
C6_NonJSONDecodeFault ==
  \A e \in Exchanges :
    (/\ EndIntercepted(e)
     /\ Intended(e) # <<>>
     /\ ~IntendedJSON(e).ok
     /\ SchemaApplies(e))
      => /\ thrown[e] = <<DecodeError>>
         /\ ~ValidationErrorPropagated(e)
         /\ ResponseFnCalls(e) = {}
         /\ ~OriginalEndInvoked(e)

\* No schema resolves for the exchange's response.
NoResponseSchema(e) ==
  LET pathObj == matchUrlWithSchema(req[e].originalUrl)
      method == toLowerCase(req[e].method)
  IN \/ ~pathObj.found
     \/ method \notin DOMAIN pathObj.definition
     \/ res[e].statusCode \notin DOMAIN pathObj.definition[method].responses

\* The original end received the handler's payload, as text or as its JSON.
PayloadSent(e) ==
  \E i \in 1..Len(wire[e]) :
    /\ wire[e][i].op = "end"
    /\ \/ wire[e][i].text = Intended(e)
       \/ /\ IntendedJSON(e).ok /\ JSONParse(wire[e][i].text).ok
          /\ JSONParse(wire[e][i].text).value = IntendedJSON(e).value

\* C7: when no schema resolves, the request stage continues with no error and
\* without validating, and the response stage sends the captured payload
\* through the original end, throwing nothing and propagating no error.
C7_NoSchemaPassesThrough ==
  \A e \in Exchanges :
    /\ (RequestStageRan(e) /\ RequestSchemaOf(e) = NoSchema)
         => /\ nextCalls[e] # <<>> /\ nextCalls[e][1] = ProceedCall("request")
            /\ RequestFnCalls(e) = {}
            /\ \A i \in 1..Len(wire[e]) : wire[e][i].op # "json"
    /\ (EndIntercepted(e) /\ NoResponseSchema(e))
         => /\ thrown[e] = <<>>
            /\ ~ErrorPropagated(e)
            /\ PayloadSent(e)

\* C8: with a callback configured a violation is observed and does not block:
\* the request callback runs once with (request, body, errors), the
\* continuation follows with no error and no 400; the response callback runs
\* once with (request, parsed value, errors), the original payload goes to the
\* original end and no error reaches the continuation.
C8_CallbackNonBlocking ==
  \A e \in Exchanges :
    /\ (RequestStageRan(e) /\ options.requestValidationFn /\ RequestViolates(e))
         => /\ fnCalls[e] # <<>>
            /\ fnCalls[e][1] =
                 FnCall("requestValidationFn", req[e], req[e].body,
                        ValidationErrors(RequestSchemaOf(e), req[e].body))
            /\ Cardinality(RequestFnCalls(e)) = 1
            /\ nextCalls[e] # <<>> /\ nextCalls[e][1] = ProceedCall("request")
            /\ \A i \in 1..Len(wire[e]) : wire[e][i].op # "json"
    /\ (/\ EndIntercepted(e)
        /\ options.responseValidationFn
        /\ IntendedJSON(e).ok
        /\ SchemaApplies(e)
        /\ IntendedErrors(e) # <<>>)
         => /\ Cardinality(ResponseFnCalls(e)) = 1
            /\ \A i \in ResponseFnCalls(e) :
                 fnCalls[e][i] =
                   FnCall("responseValidationFn", req[e], IntendedJSON(e).value,
                          IntendedErrors(e))
            /\ DeliveredJSON(e, IntendedJSON(e).value)
            /\ ~ErrorPropagated(e)

\* C9: the text the stage decodes is the captured chunks in arrival order
\* followed by the data passed to end, for Buffer and string end data alike.
C9_DecodesConcatenation ==
  \A e \in Exchanges :
    (EndIntercepted(e) /\ val[e].decoded)
      => val[e].text = Intended(e)

\* C10: once the replaced end has been invoked, on every path out of it
\* res.write and res.end are the originals again.
C10_RestoredOnEveryPath ==
  \A e \in Exchanges :
    EndIntercepted(e) => (res[e].write = "orig" /\ res[e].end = "orig")

----------------------------------------------------------------------------
\* Properties of the interception

\* C11: between the installation of the replacements and the handler's end
\* call nothing reaches the transport: a write call appends its chunk to
\* writtenData and neither original operation is invoked.
C11_NothingForwardedBeforeEnd ==
  [][\A e \in Exchanges :
       (res[e].write = "hook" /\ ~hand[e].ended /\ ~hand'[e].ended)
         => /\ wire'[e] = wire[e]
            /\ hand'[e].writes = hand[e].writes + 1
                 => \E c \in WriteChunks : writtenData'[e] = Append(writtenData[e], c)]_vars

C11_Witness ==
  \E e \in Exchanges :
    /\ res[e].write = "hook" /\ res[e].end = "hook"
    /\ ~hand[e].ended /\ hand[e].writes > 0
    /\ writtenData[e] # <<>>
    /\ wire[e] = <<>>

\* The schema the contract declares for the exchange's method, path and the
\* status code `code`.
DeclaredResponseSchema(e, code) ==
  LET pathObj == matchUrlWithSchema(req[e].originalUrl)
      method == toLowerCase(req[e].method)
      declared ==
        IF /\ pathObj.found
           /\ method \in DOMAIN pathObj.definition
           /\ code \in DOMAIN pathObj.definition[method].responses
          THEN pathObj.definition[method].responses[code].schema
        ELSE NoSchema
  IN IF options.allowNullable THEN decorateWithNullable(declared) ELSE declared

\* C12: the response is validated against the descriptor of the status code
\* the response holds when the handler calls end, not of the one it held when
\* the replacements were installed.
C12_FinalStatusDecides ==
  \A e \in Exchanges :
    (EndIntercepted(e) /\ thrown[e] = <<>>)
      => LET schema == DeclaredResponseSchema(e, res[e].statusCode)
             errors == ValidationErrors(schema, val[e].value)
         IN IF schema = NoSchema \/ errors = <<>>
              THEN /\ OriginalEndInvoked(e)
                   /\ ResponseFnCalls(e) = {}
                   /\ ~ValidationErrorPropagated(e)
            ELSE ResponseFnCalls(e) # {} \/ ValidationErrorPropagated(e)

\* The handler changed the status to 404 after the hook ran; the payload would
\* fail the descriptor of 200 and is sent, 404 having no descriptor.
C12_Witness ==
  \E e \in Exchanges :
    /\ ~options.validateRequest
    /\ EndIntercepted(e) /\ thrown[e] = <<>>
    /\ hand[e].statusSet /\ res[e].statusCode = 404
    /\ DeclaredResponseSchema(e, 200) # NoSchema
    /\ ValidationErrors(DeclaredResponseSchema(e, 200), val[e].value) # <<>>
    /\ OriginalEndInvoked(e)

----------------------------------------------------------------------------
\* Properties of the hook as a whole

ProceedCalls(e) == {i \in 1..Len(nextCalls[e]) : nextCalls[e][i].arg = NoArg}

\* C18: the hook invokes the continuation with no argument at most once per
\* exchange.
C18_ProceedAtMostOnce ==
  \A e \in Exchanges : Cardinality(ProceedCalls(e)) <= 1

\* C19: for every combination of validateRequest and validateResponse, an
\* exchange the hook has returned from has had the continuation invoked or a
\* response produced by the middleware.
C19_HookNeverDoesNothing ==
  \A e \in Exchanges :
    pc[e] = "returned"
      => \/ nextCalls[e] # <<>>
         \/ \E i \in 1..Len(wire[e]) : wire[e][i].op = "json"

----------------------------------------------------------------------------
\* Schema resolution over a wider set of requests

MethodsWide == {"GET", "POST", "PUT", "get", "Post"}
UrlsWide ==
  {<<"/", "items", "/", "1", "?", "q">>, <<"/", "items", "/", "1", "#", "f">>,
   <<"/", "items", "/", "1">>, <<"/", "items", "/", "2", "/">>,
   <<"/", "items">>, <<"/", "other">>}

NextResolve ==
  \E e \in {"e1"} :
    \/ \E m \in MethodsWide, u \in UrlsWide, b \in Bodies : ValidateRequestPart(e, m, u, b)
    \/ ValidateResponsePart(e)

SpecResolve == Init /\ [][NextResolve]_vars

\* The path objects whose matcher accepts the request's path.
Matching(e) ==
  {i \in 1..Len(pathObjects) :
     RegexpMatch(Pathname(req[e].originalUrl), pathObjects[i].regexp)}
FirstMatching(e) == CHOOSE i \in Matching(e) : \A j \in Matching(e) : i <= j

\* C13: for every URL, with query string and fragment stripped,
\* matchUrlWithSchema returns the definition of the earliest registered path
\* entry whose matcher accepts the path, whatever later entries match, and
\* none when no entry matches.
C13_FirstMatchWins ==
  \A e \in Exchanges :
    pc[e] # "idle"
      => LET m == matchUrlWithSchema(req[e].originalUrl)
         IN IF Matching(e) = {}
              THEN ~m.found
            ELSE m.found /\ m.definition = pathObjects[FirstMatching(e)].definition

\* Two entries accept the path of a URL carrying a query string; the earlier
\* one is returned and the later one holds another definition.
C13_Witness ==
  \E e \in Exchanges :
    /\ pc[e] # "idle"
    /\ Pathname(req[e].originalUrl) # req[e].originalUrl
    /\ Cardinality(Matching(e)) = 2
    /\ matchUrlWithSchema(req[e].originalUrl).definition = pathObjects[1].definition
    /\ pathObjects[1].definition # pathObjects[2].definition

\* The parameters the matched path entry declares for the request's method.
DeclaredParameters(e) ==
  LET pathObj == matchUrlWithSchema(req[e].originalUrl)
      method == toLowerCase(req[e].method)
  IN IF pathObj.found /\ method \in DOMAIN pathObj.definition
       THEN pathObj.definition[method].parameters
     ELSE <<>>

\* C14: resolveRequestModelSchema returns the schema of the first declared
\* parameter of the request's method, matched case-insensitively, and none when
\* the path is unmatched, the method has no entry or declares no parameter.
C14_FirstParameterOnly ==
  \A e \in Exchanges :
    pc[e] # "idle"
      => LET params == DeclaredParameters(e)
             schema == resolveRequestModelSchema(req[e])
         IN IF params = <<>>
              THEN schema = NoSchema
            ELSE schema =
                   IF options.allowNullable THEN decorateWithNullable(params[1].schema)
                   ELSE params[1].schema

\* A mixed-case method with two declared parameters resolves to the first; the
\* same path's other method declares none.
C14_Witness ==
  \E e \in Exchanges :
    /\ pc[e] # "idle"
    /\ req[e].method = "Post"
    /\ Len(DeclaredParameters(e)) = 2
    /\ DeclaredParameters(e)[1].schema # DeclaredParameters(e)[2].schema
    /\ resolveRequestModelSchema(req[e]) = DeclaredParameters(e)[1].schema
    /\ resolveRequestModelSchema([req[e] EXCEPT !.method = "GET"]) = NoSchema

----------------------------------------------------------------------------
\* Nullable decoration over two exchanges that resolve the same schemas

PetsUrl == <<"/", "pets">>
PetBodies ==
  {Obj([name |-> Null, age |-> Num(1)]),
   Obj([name |-> StrVal(<<"x">>), age |-> Num(12)]),
   Obj([name |-> Num(1)])}

NextNullable ==
  \E e \in Exchanges :
    \/ \E b \in PetBodies : ValidateRequestPart(e, "POST", PetsUrl, b)
    \/ ValidateResponsePart(e)
    \/ \E data \in {Buf(<<"1">>)} : HandlerEnd(e, data)

SpecNullable == Init /\ [][NextNullable]_vars

\* The path objects as init built them from the contract document.
Pristine == buildPathObjects(ContractPaths)

\* Every schema of the contract as it is now, paired with what it was.
SchemaPairs ==
  UNION {
    LET now == pathObjects[i].definition[m]
        was == Pristine[i].definition[m]
    IN {<<now.parameters[k].schema, was.parameters[k].schema>> :
          k \in DOMAIN now.parameters}
       \cup {<<now.responses[c].schema, was.responses[c].schema>> :
               c \in DOMAIN now.responses}
    : <<i, m>> \in {<<j, n>> \in (DOMAIN pathObjects) \X {"get", "post", "put"} :
                      n \in DOMAIN pathObjects[j].definition}}

HasProperties(schema) == "properties" \in DOMAIN schema
WrapOf(prop) == [oneOf |-> <<prop, [type |-> "null"]>>]

\* C15: after any number of resolutions of the same schema object every
\* top-level property flagged x-nullable is its original schema or one choice
\* between that original and the null type, never a choice nested in a choice,
\* and no other property is touched.
C15_DecorationIdempotent ==
  \A pair \in SchemaPairs :
    LET now == pair[1]
        was == pair[2]
    IN HasProperties(was)
         => /\ HasProperties(now)
            /\ DOMAIN now.properties = DOMAIN was.properties
            /\ \A p \in DOMAIN was.properties :
                 \/ now.properties[p] = was.properties[p]
                 \/ /\ XNullable(was.properties[p])
                    /\ now.properties[p] = WrapOf(was.properties[p])
            /\ \A v \in PetBodies :
                 now # was =>
                   (ValidationErrors(now, v) = <<>>)
                     = (\A p \in DOMAIN was.properties \cap DOMAIN v.props :
                          \/ ValidationErrors(was.properties[p], v.props[p]) = <<>>
                          \/ XNullable(was.properties[p]) /\ v.props[p] = Null)

RequestStageResolved(e) ==
  pc[e] # "idle" /\ options.validateRequest /\ req[e].originalUrl = PetsUrl

\* Both exchanges resolved the request schema of POST /pets with allowNullable
\* on, and its flagged property is wrapped once.
C15_Witness ==
  /\ options.allowNullable
  /\ \A e \in Exchanges : RequestStageResolved(e)
  /\ pathObjects[3].definition.post.parameters[1].schema.properties.name
       = WrapOf(PetSchema.properties.name)

\* A schema with every wrapped property replaced by the first alternative.
Unwrapped(schema) ==
  IF HasProperties(schema)
    THEN [schema EXCEPT !.properties =
            [p \in DOMAIN schema.properties |->
               IF "oneOf" \in DOMAIN schema.properties[p]
                 THEN schema.properties[p].oneOf[1]
               ELSE schema.properties[p]]]
  ELSE schema

UnwrappedDefinition(def) ==
  [m \in DOMAIN def |->
     [parameters |->
        [k \in DOMAIN def[m].parameters |->
           [schema |-> Unwrapped(def[m].parameters[k].schema)]],
      responses |->
        [c \in DOMAIN def[m].responses |->
           [schema |-> Unwrapped(def[m].responses[c].schema)]]]]

UnwrappedPathObjects ==
  [i \in DOMAIN pathObjects |->
     [pathObjects[i] EXCEPT !.definition = UnwrappedDefinition(@)]]

\* C16: with allowNullable disabled the contract stays as it was; with it
\* enabled the contract differs from what it was only in x-nullable top-level
\* properties wrapped in place, and only in schemas that have been resolved.
C16_OnlyDecorationMutates ==
  /\ ~options.allowNullable => pathObjects = Pristine
  /\ UnwrappedPathObjects = Pristine
  /\ \A pair \in SchemaPairs :
       pair[1] # pair[2]
         => /\ HasProperties(pair[2])
            /\ \E p \in DOMAIN pair[2].properties : XNullable(pair[2].properties[p])
  /\ pathObjects # Pristine => \E e \in Exchanges : pc[e] # "idle"
  /\ pathObjects[3].definition.post.responses[200].schema # PetSchema
       => \E e \in Exchanges : hand[e].ended /\ hand[e].viaHook

\* The request schema has been resolved and decorated; the response schema of
\* the same method, not resolved yet, is as it was.
C16_Witness ==
  /\ options.allowNullable
  /\ pathObjects[3].definition.post.parameters[1].schema
       = [PetSchema EXCEPT !.properties.name = WrapOf(PetSchema.properties.name)]
  /\ pathObjects[3].definition.post.responses[200].schema = PetSchema
  /\ [pathObjects EXCEPT ![3].definition.post.parameters[1].schema = PetSchema] = Pristine

----------------------------------------------------------------------------
\* Two exchanges in flight at once: each GET /items/1 exchange has its own
\* response object, and the handler of each writes chunks only it writes.

ItemUrl == <<"/", "items", "/", "1", "?", "q">>

ChunksOf(e) == IF e = "e1" THEN {Buf(<<"1">>)} ELSE {Buf(<<"2">>)}
EndDataOf(e) ==
  IF e = "e1" THEN {Undef, Buf(<<"1">>)}
  ELSE {Undef, Buf(<<"2">>), Str(<<"2">>)}
OwnChars(e) == IF e = "e1" THEN {"1"} ELSE {"2"}

NextConcurrent ==
  \E e \in Exchanges :
    \/ ValidateRequestPart(e, "GET", ItemUrl, Num(1))
    \/ ValidateResponsePart(e)
    \/ \E chunk \in ChunksOf(e) : HandlerWrite(e, chunk)
    \/ \E data \in EndDataOf(e) : HandlerEnd(e, data)

SpecConcurrent == Init /\ [][NextConcurrent]_vars

\* The chunks the handler of e wrote through the replacement, in the order it
\* wrote them: those it issued, less the ones the transport's write took.
WiredWrites(e) == Cardinality({i \in DOMAIN wire[e] : wire[e][i].op = "write"})
OwnCaptured(e) ==
  SubSeq(hand[e].issued, WiredWrites(e) + 1, Len(hand[e].issued))

----------------------------------------------------------------------------
\* init called again: the module's options and pathObjects are replaced, and
\* an exchange goes through the hook that one of the init calls returned.

MaxInits == 2

\* options.schema.paths of the contract document as it is now
CurrentPaths ==
  [i \in DOMAIN pathObjects |->
     [path |-> pathObjects[i].path, pathDef |-> pathObjects[i].definition]]

\* init(opts), lines 240-251
InitCall(opts) ==
  /\ Len(inits) < MaxInits
  /\ options' = opts
  /\ pathObjects' = buildPathObjects(CurrentPaths)
  /\ inits' = Append(inits, opts)
  /\ UNCHANGED <<via, pc, req, res, writtenData, val, nextCalls, wire, thrown,
                 fnCalls, hand>>

NextInit ==
  \/ \E opts \in Options : InitCall(opts)
  \/ \E e \in {"e1"} :
       \/ \E b \in Bodies : ValidateRequestPart(e, "POST", ItemUrl, b)
       \/ ValidateResponsePart(e)

SpecInit == Init /\ [][NextInit]_vars

\* The options passed to the init call that returned the hook e went through.
HookOptions(e) == inits[via[e]]

\* C20: an exchange is validated under the options of the init call that
\* returned its hook: when those enable validateRequest without a
\* requestValidationFn, a body violating the request schema is answered 400
\* and the continuation is not invoked; when they disable validateRequest and
\* validateResponse, the request is neither answered nor are the replacements
\* installed.
C20_HookKeepsItsOptions ==
  \A e \in Exchanges :
    pc[e] # "idle" =>
      /\ (HookOptions(e).validateRequest /\ ~HookOptions(e).requestValidationFn
            /\ RequestViolates(e))
           => Rejected400(e)
      /\ ~HookOptions(e).validateRequest => wire[e] = <<>> /\ fnCalls[e] = <<>>
      /\ (pc[e] = "returned" /\ ~HookOptions(e).validateResponse)
           => res[e].write = "orig"

====
